---- MODULE Spec2Model ----
(***************************************************************************)
(* Model of src/FFT/fft.cpp: the radix-2 FFT engine (twiddle and           *)
(* bit-reversal tables on the malloc heap), its inverse, and the CQT       *)
(* kernel bank built on it.                                                *)
(*                                                                         *)
(* Arithmetic is exact.  A float is modelled as an element of Q(sqrt 2),   *)
(* <<a, b, d>> standing for (a + b*sqrt(2))/d in lowest terms with d > 0,  *)
(* which holds every sine and cosine the model needs (angles that are      *)
(* multiples of pi/4, i.e. transform lengths up to 8); NaN is <<0,0,0>>.   *)
(***************************************************************************)
EXTENDS Integers, Sequences, FiniteSets

(* ------------------------------ bounds --------------------------------- *)
\* Blocks the heap has room for; malloc returns NULL when all are live.
MaxBlocks == 5
\* Largest magnitude of a host sample.
MaxVal == 1
\* Buffer-changing transform calls followed after one host load.
MaxBufOps == 2
\* Largest octaves argument (binsPerOctave is 0, 1 or 2 at application).
MaxOct == 2

\* Transform lengths: the powers of two whose twiddles lie in Q(sqrt 2), and
\* lengths that are not powers of two (the empty buffer, a negative count).
PowLengths == {1, 2, 4, 8}
BadLengths == {-4, 0, 3}
\* Buffer lengths of the host.
Lengths == {0, 1, 2, 3, 4, 8}
\* The buffer lengths used where both engines run together.
SmallLengths == {3, 4}
\* <<sampleRate, minFreq>> given to initCQT: bin 0 below Nyquist with a filter
\* of 3 samples, and bin 0 at Nyquist.
Rates == {<<3, 1>>, <<2, 1>>}

(* --------------------------- float arithmetic -------------------------- *)
Abs(x) == IF x < 0 THEN -x ELSE x

RECURSIVE GCD(_, _)
GCD(a, b) == IF b = 0 THEN a ELSE GCD(b, a % b)

NaN == <<0, 0, 0>>
IsNaN(x) == x[3] = 0

Norm(a, b, d) ==
    LET g == GCD(GCD(Abs(a), Abs(b)), d)
    IN  <<a \div g, b \div g, d \div g>>

Flt(k) == <<k, 0, 1>>
Zero == Flt(0)

Add(x, y) ==
    IF IsNaN(x) \/ IsNaN(y) THEN NaN
    ELSE Norm(x[1] * y[3] + y[1] * x[3], x[2] * y[3] + y[2] * x[3], x[3] * y[3])

Neg(x) == <<-x[1], -x[2], x[3]>>

Sub(x, y) == Add(x, Neg(y))

Mul(x, y) ==
    IF IsNaN(x) \/ IsNaN(y) THEN NaN
    ELSE Norm(x[1] * y[1] + 2 * x[2] * y[2], x[1] * y[2] + x[2] * y[1], x[3] * y[3])

\* 1.0f / k: +inf is not a value of the model; the one place the code divides
\* by zero (filterLen = 1) multiplies the quotient by 0, which is NaN.
Recip(k) == <<1, 0, k>>

\* cosf and sinf at m * pi/4.
CosPi4(m) ==
    LET r == m % 8
    IN  CASE r = 0 -> Flt(1)
          [] r = 1 -> <<0, 1, 2>>
          [] r = 2 -> Zero
          [] r = 3 -> <<0, -1, 2>>
          [] r = 4 -> Flt(-1)
          [] r = 5 -> <<0, -1, 2>>
          [] r = 6 -> Zero
          [] r = 7 -> <<0, 1, 2>>

SinPi4(m) == CosPi4(m + 6)

ZeroVec(n) == [k \in 1..n |-> Zero]

(* ----------------------------- int bit ops ----------------------------- *)
RECURSIVE BitAnd(_, _)
BitAnd(a, b) ==
    IF a = 0 \/ b = 0 THEN 0
    ELSE (a % 2) * (b % 2) + 2 * BitAnd(a \div 2, b \div 2)

RECURSIVE BitXor(_, _)
BitXor(a, b) ==
    IF a = 0 THEN b
    ELSE IF b = 0 THEN a
    ELSE ((a + b) % 2) + 2 * BitXor(a \div 2, b \div 2)

\* (n > 0) && ((n & (n - 1)) == 0)
isPowerOfTwo(n) == (n > 0) /\ (BitAnd(n, n - 1) = 0)

(* ------------------------------- state --------------------------------- *)
VARIABLES
    heap,                \* malloc heap: block id -> [live, f (floats), i (ints)]
    twiddleReal,         \* static float* : Null or a block id
    twiddleImag,         \* static float*
    bitReversalIndices,  \* static int*
    cqtKernelReal,       \* static vector<vector<float>>
    cqtKernelImag,       \* static vector<vector<float>>
    real, imag,          \* the host's sample buffers (length n)
    outReal, outImag,    \* the host's CQT output buffers
    last,                \* the most recent call: what it was given, returned and touched
    fftInitOk,           \* some initFFT returned true since start / last freeFFT
    cqtInitOk,           \* some initCQT returned true since start / last freeCQT
    cqtTried,            \* some initCQT got past its argument check since start / last freeCQT
    fftN,                \* the length the engine was last initialised for, 0 when torn down
    x0, bufOps,          \* the loaded input, and how often it was changed since
    ub                   \* the program has executed undefined behaviour

vars == <<heap, twiddleReal, twiddleImag, bitReversalIndices, cqtKernelReal,
          cqtKernelImag, real, imag, outReal, outImag, last, fftInitOk,
          cqtInitOk, cqtTried, fftN, x0, bufOps, ub>>

fftState == <<heap, twiddleReal, twiddleImag, bitReversalIndices>>
cqtState == <<cqtKernelReal, cqtKernelImag>>
hostBufs == <<real, imag>>
outBufs == <<outReal, outImag>>

(* -------------------------------- heap --------------------------------- *)
Null == 0
Blocks == 1..MaxBlocks
FreeBlock == [live |-> FALSE, f |-> <<>>, i |-> <<>>]
LiveBlocks(h) == {b \in Blocks : h[b].live}
FreeCount(h) == MaxBlocks - Cardinality(LiveBlocks(h))

\* malloc: NULL on failure, else a block that is not live.
Malloc(h, fail) ==
    IF fail \/ FreeCount(h) = 0
    THEN [ptr |-> Null, heap |-> h]
    ELSE LET b == CHOOSE c \in Blocks :
                    ~h[c].live /\ \A e \in Blocks : e < c => h[e].live
         IN  [ptr |-> b, heap |-> [h EXCEPT ![b] = [live |-> TRUE, f |-> <<>>, i |-> <<>>]]]

\* free(p): a no-op on NULL; freeing a block that is not live is a double free.
Free(h, p) == IF p = Null THEN h ELSE [h EXCEPT ![p] = FreeBlock]
DoubleFree(h, p) == p # Null /\ ~h[p].live

(* ---------------------------- the call log ----------------------------- *)
\* What the most recent call was and did.  valid: its argument and state
\* checks passed; tablesRead / bankRead: it indexed the FFT tables / the
\* kernel bank; oob: an index was outside its array; allocFailed: a malloc
\* returned NULL; dfree: it freed a block that was not live; terminated: its
\* loops ran to completion; nullArg: a pointer argument was null; args: its
\* scalar arguments besides n; bankBefore: the bank's size when it began;
\* chain: 1 for an fft of the buffers as the host loaded them, given their
\* length and non-null pointers while the engine is initialised for that
\* length, 2 for an ifft of those buffers that directly follows it.
Call(op, ret, n) ==
    [op |-> op, ret |-> ret, n |-> n, valid |-> FALSE, tablesRead |-> FALSE,
     bankRead |-> FALSE, oob |-> FALSE, allocFailed |-> FALSE, dfree |-> FALSE,
     terminated |-> TRUE, nullArg |-> FALSE, args |-> <<>>, bankBefore |-> 0,
     chain |-> 0]

(* ------------------------------- initFFT ------------------------------- *)
\* angle = -2*pi*i/n, in units of pi/4 (exact for n dividing 8).
TwiddleAngle(i, n) == -((8 * i) \div n)

\* A table of half the entries, for comparison.
TwiddleRealTableShort(n) == [k \in 1..(n \div 4) |-> CosPi4(TwiddleAngle(k - 1, n))]

TwiddleRealTable(n) == [k \in 1..(n \div 2) |-> CosPi4(TwiddleAngle(k - 1, n))]
TwiddleImagTable(n) == [k \in 1..(n \div 2) |-> SinPi4(TwiddleAngle(k - 1, n))]

\* while (j & bit) { j ^= bit; bit >>= 1; }   fuel bounds the iterations
\* followed, so that a loop that would not stop is reported, not run.
RECURSIVE WhileBit(_, _, _)
WhileBit(j, bit, fuel) ==
    IF BitAnd(j, bit) # 0
    THEN IF fuel = 0
         THEN [j |-> j, bit |-> bit, done |-> FALSE]
         ELSE WhileBit(BitXor(j, bit), bit \div 2, fuel - 1)
    ELSE [j |-> j, bit |-> bit, done |-> TRUE]

\* The loop body without its closing j ^= bit, for comparison.
BitRevStepNoFlip(j, n) ==
    LET w == WhileBit(j, n \div 2, n)
    IN  [entry |-> j, j |-> w.j, done |-> w.done]

\* One pass of the for loop body at index i: the entry written and the next j.
BitRevStep(j, n) ==
    LET w == WhileBit(j, n \div 2, n)
    IN  [entry |-> j, j |-> BitXor(w.j, w.bit), done |-> w.done]

RECURSIVE BitRevLoop(_, _, _, _, _)
BitRevLoop(i, j, n, tbl, done) ==
    IF i >= n \/ ~done
    THEN [tbl |-> tbl, done |-> done]
    ELSE LET s == BitRevStep(j, n)
         IN  BitRevLoop(i + 1, s.j, n, Append(tbl, s.entry), s.done)

BitReversalTable(n) == BitRevLoop(0, 0, n, <<>>, TRUE)

\* The failure branch taken when a twiddle malloc returned NULL (lines 25-29).
TwiddleAllocFailed(h, p1, p2) ==
    [ret |-> FALSE, heap |-> Free(Free(h, p1), p2), tr |-> Null, ti |-> Null,
     br |-> bitReversalIndices, allocFailed |-> TRUE, terminated |-> TRUE]

\* The failure branch taken when the index malloc returned NULL (lines 36-41).
IndexAllocFailed(h, p1, p2) ==
    [ret |-> FALSE, heap |-> Free(Free(h, p1), p2), tr |-> Null, ti |-> Null,
     br |-> Null, allocFailed |-> TRUE, terminated |-> TRUE]

\* initFFT(n); f1, f2, f3 say which of its three mallocs return NULL.
initFFT(n, f1, f2, f3) ==
    IF ~isPowerOfTwo(n)
    THEN [ret |-> FALSE, heap |-> heap, tr |-> twiddleReal, ti |-> twiddleImag,
          br |-> bitReversalIndices, allocFailed |-> FALSE, terminated |-> TRUE]
    ELSE LET a1 == Malloc(heap, f1)
             a2 == Malloc(a1.heap, f2)
         IN  IF a1.ptr = Null \/ a2.ptr = Null
             THEN TwiddleAllocFailed(a2.heap, a1.ptr, a2.ptr)
             ELSE LET h2 == [a2.heap EXCEPT ![a1.ptr].f = TwiddleRealTable(n),
                                            ![a2.ptr].f = TwiddleImagTable(n)]
                      a3 == Malloc(h2, f3)
                  IN  IF a3.ptr = Null
                      THEN IndexAllocFailed(h2, a1.ptr, a2.ptr)
                      ELSE LET t == BitReversalTable(n)
                           IN  [ret |-> TRUE,
                                heap |-> [a3.heap EXCEPT ![a3.ptr].i = t.tbl],
                                tr |-> a1.ptr, ti |-> a2.ptr, br |-> a3.ptr,
                                allocFailed |-> FALSE, terminated |-> t.done]

(* ------------------------------- freeFFT ------------------------------- *)
\* A teardown that frees the blocks and keeps the pointers, for comparison.
freeFFTNoReset ==
    LET h1 == Free(heap, twiddleReal)
        h2 == Free(h1, twiddleImag)
        h3 == Free(h2, bitReversalIndices)
    IN  [ret |-> TRUE, heap |-> h3, tr |-> twiddleReal, ti |-> twiddleImag,
         br |-> bitReversalIndices,
         dfree |-> DoubleFree(heap, twiddleReal) \/ DoubleFree(h1, twiddleImag)
                   \/ DoubleFree(h2, bitReversalIndices)]

freeFFT ==
    LET h1 == Free(heap, twiddleReal)
        h2 == Free(h1, twiddleImag)
        h3 == Free(h2, bitReversalIndices)
    IN  [ret |-> TRUE, heap |-> h3, tr |-> Null, ti |-> Null, br |-> Null,
         dfree |-> DoubleFree(heap, twiddleReal) \/ DoubleFree(h1, twiddleImag)
                   \/ DoubleFree(h2, bitReversalIndices)]

(* --------------------------------- fft --------------------------------- *)
\* The check without its two table tests, for comparison.
FftValidNoTables(n, realNull, imagNull) ==
    ~(~isPowerOfTwo(n) \/ realNull \/ imagNull)

\* The check on line 54.
FftValid(n, realNull, imagNull) ==
    ~(~isPowerOfTwo(n) \/ realNull \/ imagNull \/ twiddleReal = Null
      \/ bitReversalIndices = Null)

\* Array lengths behind the three table pointers (0 behind NULL).
TableLen(p, field) ==
    IF p = Null THEN 0
    ELSE IF field = "f" THEN Len(heap[p].f) ELSE Len(heap[p].i)

StageLens(n) == {len \in 2..n : isPowerOfTwo(len)}
\* Every index j * step used on lines 69-70.
TwiddleIndices(n) ==
    UNION {{j * (n \div len) : j \in 0..(len \div 2 - 1)} : len \in StageLens(n)}

\* Every index the call uses is inside its array: the tables' (lines 58,
\* 69-70) and, for the swap partner j read from the table, the caller's
\* length-bufLen buffers (lines 60-61).
FftInBounds(n, bufLen) ==
    /\ n <= bufLen
    /\ n <= TableLen(bitReversalIndices, "i")
    /\ \A i \in 0..(n - 1) :
          LET j == heap[bitReversalIndices].i[i + 1]
          IN  i < j => j < bufLen
    /\ \A t \in TwiddleIndices(n) :
          t < TableLen(twiddleReal, "f") /\ t < TableLen(twiddleImag, "f")

Swap(s, i, j) == [s EXCEPT ![i + 1] = s[j + 1], ![j + 1] = s[i + 1]]

\* Lines 57-63.
RECURSIVE Permute(_, _, _, _)
Permute(buf, i, n, tbl) ==
    IF i >= n THEN buf
    ELSE LET j == tbl[i + 1]
         IN  Permute(IF i < j THEN <<Swap(buf[1], i, j), Swap(buf[2], i, j)>> ELSE buf,
                     i + 1, n, tbl)

\* Lines 68-74.
Butterfly(buf, even, odd, wr, wi) ==
    LET re == Sub(Mul(buf[1][odd + 1], wr), Mul(buf[2][odd + 1], wi))
        im == Add(Mul(buf[1][odd + 1], wi), Mul(buf[2][odd + 1], wr))
    IN  <<[buf[1] EXCEPT ![odd + 1] = Sub(buf[1][even + 1], re),
                         ![even + 1] = Add(buf[1][even + 1], re)],
          [buf[2] EXCEPT ![odd + 1] = Sub(buf[2][even + 1], im),
                         ![even + 1] = Add(buf[2][even + 1], im)]>>

\* Line 67: for (j = 0; j < half; j++).
RECURSIVE Pairs(_, _, _, _, _, _, _)
Pairs(buf, i, j, len, n, twR, twI) ==
    IF j >= len \div 2 THEN buf
    ELSE Pairs(Butterfly(buf, i + j, i + j + len \div 2,
                         twR[j * (n \div len) + 1], twI[j * (n \div len) + 1]),
               i, j + 1, len, n, twR, twI)

\* Line 66: for (i = 0; i < n; i += len).
RECURSIVE Groups(_, _, _, _, _, _)
Groups(buf, i, len, n, twR, twI) ==
    IF i >= n THEN buf
    ELSE Groups(Pairs(buf, i, 0, len, n, twR, twI), i + len, len, n, twR, twI)

\* Line 64: for (len = 2; len <= n; len <<= 1).
RECURSIVE Passes(_, _, _, _, _)
Passes(buf, len, n, twR, twI) ==
    IF len > n THEN buf
    ELSE Passes(Groups(buf, 0, len, n, twR, twI), 2 * len, n, twR, twI)

\* Lines 57-78 on in-bounds indices.
FftBody(buf, n) ==
    Passes(Permute(buf, 0, n, heap[bitReversalIndices].i), 2, n,
           heap[twiddleReal].f, heap[twiddleImag].f)

\* fft(real, imag, n) on buffers buf = <<real, imag>>.  status: "rejected"
\* (returned false on line 55), "done" (returned true on line 78), or
\* "undefined" (an index left its array).
fft(buf, n, realNull, imagNull) ==
    IF ~FftValid(n, realNull, imagNull) THEN [status |-> "rejected", buf |-> buf]
    ELSE IF ~FftInBounds(n, Len(buf[1])) THEN [status |-> "undefined", buf |-> buf]
    ELSE [status |-> "done", buf |-> FftBody(buf, n)]

(* -------------------------------- ifft --------------------------------- *)
NegateAll(s) == [k \in 1..Len(s) |-> Neg(s[k])]
ScaleAll(s, c) == [k \in 1..Len(s) |-> Mul(s[k], c)]

\* The scaling without the sign of the imaginary part, for comparison.
IfftScaleNoConj(buf, n) == <<ScaleAll(buf[1], Recip(n)), ScaleAll(buf[2], Recip(n))>>

\* Lines 91-94.
IfftScale(buf, n) == <<ScaleAll(buf[1], Recip(n)), ScaleAll(buf[2], Neg(Recip(n)))>>

\* An inverse transform that conjugates before it checks n, for comparison.
ifftConjFirst(buf, n, realNull, imagNull) ==
    LET conj == <<buf[1], NegateAll(buf[2])>>
    IN  IF ~isPowerOfTwo(n) \/ realNull \/ imagNull
        THEN [status |-> "rejected", buf |-> conj, valid |-> FALSE]
        ELSE LET r == fft(conj, n, realNull, imagNull)
             IN  IF r.status = "done"
                 THEN [status |-> "done", buf |-> IfftScale(r.buf, n), valid |-> TRUE]
                 ELSE [status |-> r.status, buf |-> r.buf, valid |-> r.status # "rejected"]

\* ifft(real, imag, n).  status as for fft.
ifft(buf, n, realNull, imagNull) ==
    IF ~isPowerOfTwo(n) \/ realNull \/ imagNull
    THEN [status |-> "rejected", buf |-> buf, valid |-> FALSE]
    ELSE LET conj == <<buf[1], NegateAll(buf[2])>>
             r == fft(conj, n, realNull, imagNull)
         IN  IF r.status = "done"
             THEN [status |-> "done", buf |-> IfftScale(r.buf, n), valid |-> TRUE]
             ELSE [status |-> r.status, buf |-> r.buf, valid |-> r.status # "rejected"]

(* ------------------------------- initCQT ------------------------------- *)
\* vector::resize(count, value): keeps the first elements as they are (with
\* the lengths they have) and appends copies of value.
Resize(bank, count, n) ==
    IF count <= Len(bank)
    THEN SubSeq(bank, 1, count)
    ELSE bank \o [k \in 1..(count - Len(bank)) |-> ZeroVec(n)]

\* Q = 1 / (2^(1/binsPerOctave) - 1) and freq = minFreq * 2^(k/binsPerOctave),
\* exact for binsPerOctave = 1, the only positive value the model constructs
\* a bank with (any other makes both irrational).
QFactor(binsPerOctave) == 1 \div (2 ^ (1 \div binsPerOctave) - 1)
BinFreq(k, binsPerOctave, minFreq) == minFreq * 2 ^ (k \div binsPerOctave)

\* The skip test without its Nyquist half, for comparison.
BinSkippedNoNyquist(freq, sampleRate) == freq <= 0

\* Line 109: freq <= 0 || freq >= sampleRate / 2.
BinSkipped(freq, sampleRate) == freq <= 0 \/ 2 * freq >= sampleRate

\* Lines 110-111: ceilf(Q * sampleRate / freq), clamped to n.
FilterLen(q, sampleRate, freq, n) ==
    LET c == (q * sampleRate + freq - 1) \div freq
    IN  IF c > n THEN n ELSE c

\* Line 117: 0.5 - 0.5 * cos(2*pi*i / (filterLen - 1)).  With filterLen = 1
\* the quotient is 0 * inf, a NaN.  The angle is exact, in units of pi/4,
\* for filterLen in {2, 3, 5, 9}.
Window(i, filterLen) ==
    IF filterLen = 1 THEN NaN
    ELSE Sub(<<1, 0, 2>>, Mul(<<1, 0, 2>>, CosPi4((8 * i) \div (filterLen - 1))))

\* 2*pi*freq*t / sampleRate with t = i - (filterLen - 1)/2, in units of pi/4.
CarrierAngle(i, filterLen, freq, sampleRate) ==
    (4 * freq * (2 * i - filterLen + 1)) \div sampleRate

\* Lines 116-119: <<tempReal[i], tempImag[i]>>.  Where the window is exactly
\* 0 the sample is 0 whatever the (finite) carrier is; elsewhere the carrier
\* angle is a multiple of pi/4 for the rates and lengths the model passes.
TempSample(i, filterLen, freq, sampleRate) ==
    LET w == Window(i, filterLen)
        a == CarrierAngle(i, filterLen, freq, sampleRate)
    IN  IF w = Zero THEN <<Zero, Zero>>
        ELSE <<Mul(w, CosPi4(a)), Mul(w, SinPi4(a))>>

\* Lines 113-120: the length-n time-domain buffers <<tempReal, tempImag>>.
TempKernel(n, filterLen, freq, sampleRate) ==
    <<[k \in 1..n |-> IF k <= filterLen
                      THEN TempSample(k - 1, filterLen, freq, sampleRate)[1] ELSE Zero],
      [k \in 1..n |-> IF k <= filterLen
                      THEN TempSample(k - 1, filterLen, freq, sampleRate)[2] ELSE Zero]>>

\* Lines 124-127: the first n entries of the stored kernel are overwritten.
StoreKernel(old, new, n) == [k \in 1..Len(old) |-> IF k <= n THEN new[k] ELSE old[k]]

\* Lines 107-128 from bin k on, over the bank <<kr, ki>>.
RECURSIVE KernelLoop(_, _, _, _, _, _, _, _)
KernelLoop(k, totalBins, kr, ki, binsPerOctave, n, sampleRate, minFreq) ==
    IF k >= totalBins
    THEN [status |-> "done", kr |-> kr, ki |-> ki, bin |-> k, fftCalled |-> FALSE]
    ELSE LET freq == BinFreq(k, binsPerOctave, minFreq)
             filterLen == FilterLen(QFactor(binsPerOctave), sampleRate, freq, n)
         IN  IF BinSkipped(freq, sampleRate) \/ filterLen <= 0
             THEN KernelLoop(k + 1, totalBins, kr, ki, binsPerOctave, n, sampleRate, minFreq)
             ELSE LET r == fft(TempKernel(n, filterLen, freq, sampleRate), n, FALSE, FALSE)
                  IN  IF r.status = "rejected"
                      THEN [status |-> "rejected", kr |-> kr, ki |-> ki, bin |-> k,
                            fftCalled |-> TRUE]
                      ELSE IF r.status = "undefined" \/ Len(kr[k + 1]) < n \/ Len(ki[k + 1]) < n
                      THEN [status |-> "undefined", kr |-> kr, ki |-> ki, bin |-> k,
                            fftCalled |-> TRUE]
                      ELSE LET s == KernelLoop(k + 1, totalBins,
                                      [kr EXCEPT ![k + 1] = StoreKernel(@, r.buf[1], n)],
                                      [ki EXCEPT ![k + 1] = StoreKernel(@, r.buf[2], n)],
                                      binsPerOctave, n, sampleRate, minFreq)
                           IN  [s EXCEPT !.fftCalled = TRUE]

\* Line 100.
InitCqtValid(binsPerOctave, octaves, n, sampleRate, minFreq) ==
    ~(binsPerOctave <= 0 \/ octaves <= 0 \/ n <= 0 \/ sampleRate <= 0 \/ minFreq <= 0)

\* initCQT(binsPerOctave, octaves, n, sampleRate, minFreq).  status:
\* "invalid" (returned false on line 101), "rejected" (the inner fft failed,
\* line 122), "done" (returned true) or "undefined".
initCQT(binsPerOctave, octaves, n, sampleRate, minFreq) ==
    IF ~InitCqtValid(binsPerOctave, octaves, n, sampleRate, minFreq)
    THEN [status |-> "invalid", kr |-> cqtKernelReal, ki |-> cqtKernelImag, bin |-> 0,
          fftCalled |-> FALSE]
    ELSE LET totalBins == binsPerOctave * octaves
         IN  KernelLoop(0, totalBins, Resize(cqtKernelReal, totalBins, n),
                        Resize(cqtKernelImag, totalBins, n),
                        binsPerOctave, n, sampleRate, minFreq)

(* --------------------------------- cqt --------------------------------- *)
\* Line 134; nulls is the set of pointer arguments that are null.
CqtArgsValid(nulls, n, binsPerOctave, octaves) ==
    ~(nulls # {} \/ binsPerOctave <= 0 \/ octaves <= 0 \/ n <= 0)

\* The size test off by one, for comparison.
CqtBankTooSmallByTwo(totalBins) == totalBins > Len(cqtKernelReal) + 1

\* Line 138.
CqtBankTooSmall(totalBins) == totalBins > Len(cqtKernelReal)

\* Lines 143-147 for bin k: <<sumReal, sumImag>> after i iterations.
RECURSIVE Correlate(_, _, _, _)
Correlate(inp, k, i, acc) ==
    IF i = 0 THEN acc
    ELSE LET a == Correlate(inp, k, i - 1, acc)
         IN  <<Add(a[1], Sub(Mul(inp[1][i], cqtKernelReal[k + 1][i]),
                             Mul(inp[2][i], cqtKernelImag[k + 1][i]))),
               Add(a[2], Add(Mul(inp[1][i], cqtKernelImag[k + 1][i]),
                             Mul(inp[2][i], cqtKernelReal[k + 1][i])))>>

\* Lines 142-150: bins 0 .. totalBins-1 written over out = <<outputReal, outputImag>>.
CqtBody(inp, out, n, totalBins) ==
    <<[k \in 1..Len(out[1]) |->
          IF k <= totalBins
          THEN Mul(Correlate(inp, k - 1, n, <<Zero, Zero>>)[1], Recip(n)) ELSE out[1][k]],
      [k \in 1..Len(out[2]) |->
          IF k <= totalBins
          THEN Mul(Correlate(inp, k - 1, n, <<Zero, Zero>>)[2], Recip(n)) ELSE out[2][k]]>>

\* Every index of lines 145-149 is inside its array.
CqtInBounds(inp, out, n, totalBins) ==
    /\ n <= Len(inp[1]) /\ n <= Len(inp[2])
    /\ totalBins <= Len(out[1]) /\ totalBins <= Len(out[2])
    /\ totalBins <= Len(cqtKernelImag)
    /\ \A k \in 1..totalBins :
          n <= Len(cqtKernelReal[k]) /\ n <= Len(cqtKernelImag[k])

\* cqt(inputReal, inputImag, outputReal, outputImag, n, binsPerOctave, octaves).
cqt(inp, out, nulls, n, binsPerOctave, octaves) ==
    IF ~CqtArgsValid(nulls, n, binsPerOctave, octaves)
    THEN [status |-> "invalid", out |-> out]
    ELSE IF CqtBankTooSmall(binsPerOctave * octaves)
    THEN [status |-> "rejected", out |-> out]
    ELSE IF ~CqtInBounds(inp, out, n, binsPerOctave * octaves)
    THEN [status |-> "undefined", out |-> out]
    ELSE [status |-> "done", out |-> CqtBody(inp, out, n, binsPerOctave * octaves)]

(* ------------------------------- freeCQT ------------------------------- *)
freeCQT == [ret |-> TRUE, kr |-> <<>>, ki |-> <<>>]

(* ------------------------------ the host ------------------------------- *)
Samples == 1..MaxVal

\* The buffers the host loads, <<real, imag>> of length n: silence and every
\* scaled unit impulse in either part (the transforms are linear, so these
\* span every input).
Inputs ==
    [n \in Lengths |->
        {<<ZeroVec(n), ZeroVec(n)>>}
        \cup {[<<ZeroVec(n), ZeroVec(n)>> EXCEPT ![c][p] = Flt(v)] :
                 c \in 1..2, p \in 1..n, v \in Samples}]

\* The buffers loaded where both engines run together: silence, and for a
\* length no transform accepts an impulse at index 1 of both parts.
Impulse(n) == [k \in 1..n |-> IF k = 2 THEN Flt(1) ELSE Zero]
Probes ==
    [n \in SmallLengths |->
        IF isPowerOfTwo(n) THEN {<<ZeroVec(n), ZeroVec(n)>>}
        ELSE {<<ZeroVec(n), ZeroVec(n)>>, <<Impulse(n), Impulse(n)>>}]

\* Which of initFFT's three mallocs return NULL.
AllocOutcomes ==
    {<<FALSE, FALSE, FALSE>>, <<TRUE, FALSE, FALSE>>, <<FALSE, TRUE, FALSE>>,
     <<TRUE, TRUE, FALSE>>, <<FALSE, FALSE, TRUE>>}

\* <<n, nullArg>> of a transform call on a length-len buffer: the buffer's
\* length or a negative count, and the pointer that is null.
TransformArgs(len) == {<<len, "none">>, <<len, "real">>, <<len, "imag">>, <<-len, "none">>}

\* <<binsPerOctave, octaves, n, rate>> of initCQT: every valid combination,
\* and each argument non-positive in turn.
CqtInitArgs ==
    {<<1, oct, n, rate>> : oct \in 1..MaxOct, n \in SmallLengths, rate \in Rates}
    \cup {<<0, 1, 4, <<3, 1>>>>, <<1, 0, 4, <<3, 1>>>>, <<1, 1, 0, <<3, 1>>>>,
          <<1, 1, 4, <<0, 1>>>>, <<1, 1, 4, <<3, 0>>>>}

\* <<nulls, n, binsPerOctave, octaves>> of cqt on length-len input buffers.
CqtArgs(len) ==
    {<<{}, len, bpo, oct>> : bpo \in 1..2, oct \in 1..MaxOct}
    \cup {<<{p}, len, 1, 1>> : p \in {"inputReal", "inputImag", "outputReal", "outputImag"}}
    \cup {<<{}, -len, 1, 1>>, <<{}, len, 0, 1>>, <<{}, len, 1, 0>>}

\* The host's output buffers hold 2 * MaxOct bins.
Poison == Flt(7)
OutLen == 2 * MaxOct
PoisonVec == [k \in 1..OutLen |-> Poison]
PoisonVecs == <<PoisonVec, PoisonVec>>
\* The output buffers live for one cqt call: the host fills them with the
\* sentinel before it and drops them at its next call.
DropOutputs == outReal' = PoisonVec /\ outImag' = PoisonVec

Init ==
    /\ heap = [b \in Blocks |-> FreeBlock]
    /\ twiddleReal = Null
    /\ twiddleImag = Null
    /\ bitReversalIndices = Null
    /\ cqtKernelReal = <<>>
    /\ cqtKernelImag = <<>>
    /\ real = <<>>
    /\ imag = <<>>
    /\ outReal = PoisonVec
    /\ outImag = PoisonVec
    /\ last = Call("none", TRUE, 0)
    /\ fftInitOk = FALSE
    /\ cqtInitOk = FALSE
    /\ cqtTried = FALSE
    /\ fftN = 0
    /\ x0 = <<<<>>, <<>>>>
    /\ bufOps = 0
    /\ ub = FALSE

\* The host fills its sample buffers.
HostLoad(n, b) ==
    /\ ~ub
    /\ real' = b[1]
    /\ imag' = b[2]
    /\ DropOutputs
    /\ x0' = b
    /\ bufOps' = 0
    /\ last' = Call("load", TRUE, n)
    /\ UNCHANGED <<fftState, cqtState, fftInitOk, cqtInitOk, cqtTried, fftN, ub>>

InitFFT(n, f1, f2, f3) ==
    /\ ~ub
    /\ \E r \in {initFFT(n, f1, f2, f3)} :
           /\ heap' = r.heap
           /\ twiddleReal' = r.tr
           /\ twiddleImag' = r.ti
           /\ bitReversalIndices' = r.br
           /\ last' = [Call("initFFT", r.ret, n) EXCEPT
                          !.valid = isPowerOfTwo(n),
                          !.allocFailed = r.allocFailed,
                          !.terminated = r.terminated]
           /\ fftInitOk' = (fftInitOk \/ r.ret)
           /\ fftN' = IF r.ret THEN n ELSE IF isPowerOfTwo(n) THEN 0 ELSE fftN
           /\ ub' = ~r.terminated
    /\ DropOutputs
    /\ UNCHANGED <<cqtState, hostBufs, cqtInitOk, cqtTried, x0, bufOps>>

FreeFFT ==
    /\ ~ub
    /\ \E r \in {freeFFT} :
           /\ heap' = r.heap
           /\ twiddleReal' = r.tr
           /\ twiddleImag' = r.ti
           /\ bitReversalIndices' = r.br
           /\ last' = [Call("freeFFT", r.ret, 0) EXCEPT
                          !.dfree = r.dfree,
                          !.args = <<Cardinality({q \in {twiddleReal, twiddleImag,
                                        bitReversalIndices} : q # Null})>>]
    /\ fftInitOk' = FALSE
    /\ fftN' = 0
    /\ DropOutputs
    /\ UNCHANGED <<cqtState, hostBufs, cqtInitOk, cqtTried, x0, bufOps, ub>>

\* The effect of a transform call with outcome r on the host's buffers.  An
\* out-of-bounds access leaves them with any contents.
Transformed(r) ==
    /\ IF r.status = "undefined"
       THEN /\ ub' = TRUE
            /\ \E h \in Inputs[Len(real)] : real' = h[1] /\ imag' = h[2]
       ELSE /\ ub' = ub
            /\ real' = r.buf[1]
            /\ imag' = r.buf[2]
    /\ IF <<real', imag'>> # <<real, imag>>
       THEN bufOps < MaxBufOps /\ bufOps' = bufOps + 1
       ELSE bufOps' = bufOps

Fft(n, nullArg) ==
    /\ ~ub
    /\ \E r \in {fft(<<real, imag>>, n, nullArg = "real", nullArg = "imag")} :
           /\ Transformed(r)
           /\ last' = [Call("fft", r.status # "rejected", n) EXCEPT
                          !.valid = r.status # "rejected",
                          !.tablesRead = r.status # "rejected",
                          !.oob = r.status = "undefined",
                          !.nullArg = nullArg # "none",
                          !.chain = IF last.op = "load" /\ nullArg = "none"
                                       /\ n = Len(real) /\ isPowerOfTwo(n) /\ fftN = n
                                    THEN 1 ELSE 0]
    /\ DropOutputs
    /\ UNCHANGED <<fftState, cqtState, fftInitOk, cqtInitOk, cqtTried, fftN, x0>>

Ifft(n, nullArg) ==
    /\ ~ub
    /\ \E r \in {ifft(<<real, imag>>, n, nullArg = "real", nullArg = "imag")} :
           /\ Transformed(r)
           /\ last' = [Call("ifft", r.status = "done" \/ r.status = "undefined", n) EXCEPT
                          !.valid = r.valid,
                          !.tablesRead = r.valid,
                          !.oob = r.status = "undefined",
                          !.nullArg = nullArg # "none",
                          !.chain = IF last.op = "fft" /\ last.chain = 1
                                       /\ nullArg = "none" /\ n = Len(real)
                                    THEN 2 ELSE 0]
    /\ DropOutputs
    /\ UNCHANGED <<fftState, cqtState, fftInitOk, cqtInitOk, cqtTried, fftN, x0>>

InitCQT(binsPerOctave, octaves, n, rate) ==
    /\ ~ub
    /\ \E r \in {initCQT(binsPerOctave, octaves, n, rate[1], rate[2])} :
           /\ cqtKernelReal' = r.kr
           /\ cqtKernelImag' = r.ki
           /\ last' = [Call("initCQT", r.status = "done" \/ r.status = "undefined", n) EXCEPT
                          !.valid = r.status # "invalid",
                          !.tablesRead = r.fftCalled /\ r.status # "rejected",
                          !.oob = r.status = "undefined",
                          !.args = <<binsPerOctave, octaves, rate[1], rate[2]>>,
                          !.bankBefore = Len(cqtKernelReal)]
           /\ cqtInitOk' = (cqtInitOk \/ r.status = "done")
           /\ cqtTried' = (cqtTried \/ r.status # "invalid")
           /\ ub' = (r.status = "undefined")
    /\ DropOutputs
    /\ UNCHANGED <<fftState, hostBufs, fftInitOk, fftN, x0, bufOps>>

FreeCQT ==
    /\ ~ub
    /\ \E r \in {freeCQT} :
           /\ cqtKernelReal' = r.kr
           /\ cqtKernelImag' = r.ki
           /\ last' = [Call("freeCQT", r.ret, 0) EXCEPT !.bankBefore = Len(cqtKernelReal)]
    /\ cqtInitOk' = FALSE
    /\ cqtTried' = FALSE
    /\ DropOutputs
    /\ UNCHANGED <<fftState, hostBufs, fftInitOk, fftN, x0, bufOps, ub>>

Cqt(nulls, n, binsPerOctave, octaves) ==
    /\ ~ub
    /\ \E r \in {cqt(<<real, imag>>, PoisonVecs, nulls, n, binsPerOctave, octaves)} :
           /\ IF r.status = "undefined"
              THEN \E o \in {PoisonVec, [k \in 1..OutLen |-> Zero]} :
                      outReal' = o /\ outImag' = o
              ELSE outReal' = r.out[1] /\ outImag' = r.out[2]
           /\ last' = [Call("cqt", r.status = "done" \/ r.status = "undefined", n) EXCEPT
                          !.valid = r.status \notin {"invalid", "rejected"},
                          !.bankRead = r.status \in {"done", "undefined"},
                          !.oob = r.status = "undefined",
                          !.nullArg = nulls # {},
                          !.args = <<binsPerOctave, octaves>>,
                          !.bankBefore = Len(cqtKernelReal)]
           /\ ub' = (r.status = "undefined")
    /\ UNCHANGED <<fftState, cqtState, hostBufs, fftInitOk, cqtInitOk, cqtTried, fftN, x0, bufOps>>

(* --------------------------- specifications ---------------------------- *)
\* Both engines under every calling sequence, on the small lengths.
Next ==
    \/ \E n \in SmallLengths : \E b \in Probes[n] : HostLoad(n, b)
    \/ \E n \in SmallLengths : \E f \in AllocOutcomes : InitFFT(n, f[1], f[2], f[3])
    \/ FreeFFT
    \/ \E a \in TransformArgs(Len(real)) : Fft(a[1], a[2])
    \/ \E a \in TransformArgs(Len(real)) : Ifft(a[1], a[2])
    \/ \E a \in CqtInitArgs : InitCQT(a[1], a[2], a[3], a[4])
    \/ FreeCQT
    \/ \E a \in CqtArgs(Len(real)) : Cqt(a[1], a[2], a[3], a[4])

Spec == Init /\ [][Next]_vars

\* The FFT engine's tables under every sequence of initFFT and freeFFT, with
\* every allocation outcome, for every length.
NextInit ==
    \/ \E n \in PowLengths \cup BadLengths : \E f \in AllocOutcomes :
          InitFFT(n, f[1], f[2], f[3])
    \/ FreeFFT

SpecInit == Init /\ [][NextInit]_vars

\* The transforms on every input, for every length, with a host that tears
\* the engine down before it initialises it again.
NextFFT ==
    \/ \E n \in Lengths : \E b \in Inputs[n] : HostLoad(n, b)
    \/ \E n \in PowLengths \cup BadLengths : \E f \in AllocOutcomes :
          LiveBlocks(heap) = {} /\ InitFFT(n, f[1], f[2], f[3])
    \/ FreeFFT
    \/ \E a \in TransformArgs(Len(real)) : Fft(a[1], a[2])
    \/ \E a \in TransformArgs(Len(real)) : Ifft(a[1], a[2])

SpecFFT == Init /\ [][NextFFT]_vars

(* ------------------------------ properties ----------------------------- *)
AllZero(v) == \A k \in 1..Len(v) : v[k] = Zero

\* C1: with the engine initialised for a power-of-two n, fft of a length-n
\* input followed by ifft both return true and leave the buffers holding
\* the input again (exact arithmetic).
RoundTrip ==
    /\ (last.op = "fft" /\ last.chain = 1) => last.ret
    /\ (last.op = "ifft" /\ last.chain = 2) =>
          (last.ret /\ real = x0[1] /\ imag = x0[2])

\* A round trip of an imaginary impulse through the length-8 transform.
RoundTripWitness ==
    /\ last.op = "ifft" /\ last.chain = 2 /\ last.ret
    /\ last.n = 8 /\ x0[2][2] # Zero /\ imag = x0[2]

\* C2: a call of initFFT, fft, ifft or initCQT whose n is not a power of two
\* returns false and leaves the tables, the kernel bank and the caller's
\* buffers as they were.
NonPowerOfTwoRejected ==
    [][(last'.op \in {"initFFT", "fft", "ifft", "initCQT"} /\ ~isPowerOfTwo(last'.n))
          => (~last'.ret /\ UNCHANGED <<fftState, cqtState, hostBufs>>)]_vars

\* C3 as stated: with no successful initFFT since the start or the last
\* freeFFT, fft and ifft return false without reading the tables; with no
\* successful initCQT since the start or the last freeCQT, a cqt call with
\* non-null pointers and positive counts returns false without reading the
\* bank.
CqtCallWellFormed ==
    last.op = "cqt" /\ ~last.nullArg /\ last.n > 0 /\ last.args[1] > 0 /\ last.args[2] > 0

UninitRejectedFFT ==
    (~fftInitOk /\ last.op \in {"fft", "ifft"}) => (~last.ret /\ ~last.tablesRead)

UninitRejected ==
    /\ UninitRejectedFFT
    /\ (~cqtInitOk /\ CqtCallWellFormed) => (~last.ret /\ ~last.bankRead)

\* C3 amended: the same for fft and ifft; cqt returns false without reading
\* the bank when no initCQT call has got past its argument check since the
\* start or the last freeCQT (a failed initCQT leaves the bank resized).
UninitRejectedAmended ==
    /\ UninitRejectedFFT
    /\ (~cqtTried /\ CqtCallWellFormed) => (~last.ret /\ ~last.bankRead)

\* An ifft of a length-4 buffer reaches the table check of an engine that
\* was never initialised or has been torn down.
UninitRejectedWitness ==
    /\ ~fftInitOk /\ last.op = "ifft" /\ ~last.nullArg /\ last.n = 4
    /\ ~last.ret /\ ~last.tablesRead /\ twiddleReal = Null

\* C4: when a malloc of initFFT fails the call returns false, all three
\* table pointers are null and no block remains allocated.
AllocFailureCleansUp ==
    (last.op = "initFFT" /\ last.allocFailed) =>
        /\ ~last.ret
        /\ twiddleReal = Null /\ twiddleImag = Null /\ bitReversalIndices = Null
        /\ LiveBlocks(heap) = {}

\* C5: a cqt call with non-null pointers and positive counts that asks for
\* more bins than the bank holds returns false and writes no output element.
BankSizeChecked ==
    (CqtCallWellFormed /\ last.args[1] * last.args[2] > Len(cqtKernelReal)) =>
        (~last.ret /\ outReal = PoisonVec /\ outImag = PoisonVec)

\* A request for two bins against a bank of one.
BankSizeWitness ==
    /\ CqtCallWellFormed /\ last.args[1] * last.args[2] = 2
    /\ Len(cqtKernelReal) = 1 /\ ~last.ret

\* Bin k of the last initCQT call has its centre frequency at or above
\* sampleRate/2 (args = <<binsPerOctave, octaves, sampleRate, minFreq>>).
PastNyquist(k) == 2 * last.args[4] * 2 ^ (k \div last.args[1]) >= last.args[3]
KernelZero(k) == AllZero(cqtKernelReal[k + 1]) /\ AllZero(cqtKernelImag[k + 1])

\* C6 as stated: after a successful initCQT every bin at or above Nyquist
\* has an all-zero kernel, whatever calls came before.
NyquistBinsZero ==
    (last.op = "initCQT" /\ last.ret /\ ~ub) =>
        \A k \in 0..(last.args[1] * last.args[2] - 1) : PastNyquist(k) => KernelZero(k)

\* C6 amended: that holds of the bins the call added to the bank (all of them
\* when the bank was empty); a bin the bank already held is left as it was.
NyquistBinsZeroAmended ==
    (last.op = "initCQT" /\ last.ret /\ ~ub) =>
        \A k \in 0..(last.args[1] * last.args[2] - 1) :
            (PastNyquist(k) /\ k >= last.bankBefore) => KernelZero(k)

\* A bank built from empty whose bin 0 holds a kernel and whose bin 1 is
\* past Nyquist.
NyquistWitness ==
    /\ last.op = "initCQT" /\ last.ret /\ ~ub /\ last.bankBefore = 0
    /\ last.args[2] = 2 /\ PastNyquist(1) /\ ~PastNyquist(0)
    /\ ~KernelZero(0) /\ KernelZero(1)

\* C7: after a successful initFFT(n) the bit-reversal table is a
\* self-inverse map of 0..n-1, and the loop that builds it has terminated.
BitReversalInvolution ==
    (last.op = "initFFT" /\ last.ret) =>
        /\ last.terminated
        /\ Len(heap[bitReversalIndices].i) = last.n
        /\ \A k \in 1..last.n :
              LET j == heap[bitReversalIndices].i[k]
              IN  j \in 0..(last.n - 1) /\ heap[bitReversalIndices].i[j + 1] = k - 1

\* The length-8 table, which sends 1 to 4 and 3 to 6.
BitReversalWitness ==
    /\ last.op = "initFFT" /\ last.ret /\ last.n = 8
    /\ heap[bitReversalIndices].i[2] = 4 /\ heap[bitReversalIndices].i[4] = 6

\* C8: freeFFT and freeCQT return true from every state, leave their engine
\* uninitialised, free no block twice, and a second call in a row changes
\* nothing.
TeardownState ==
    /\ last.op = "freeFFT" =>
          /\ last.ret /\ ~last.dfree
          /\ twiddleReal = Null /\ twiddleImag = Null /\ bitReversalIndices = Null
    /\ last.op = "freeCQT" =>
          (last.ret /\ cqtKernelReal = <<>> /\ cqtKernelImag = <<>>)

TeardownIdempotent ==
    [][((last.op = "freeFFT" /\ last'.op = "freeFFT")
           \/ (last.op = "freeCQT" /\ last'.op = "freeCQT"))
          => UNCHANGED <<fftState, cqtState>>]_vars

TeardownTotal == []TeardownState /\ TeardownIdempotent

\* freeFFT after a failed re-initialisation, when only the index table is
\* left to free.
TeardownWitness ==
    last.op = "freeFFT" /\ last.args = <<1>> /\ LiveBlocks(heap) # {}

FailureKeepsBuffers ==
    [][(last'.op \in {"fft", "ifft"} /\ ~last'.ret) => UNCHANGED hostBufs]_vars

\* C10 amended: that holds of fft, and of ifft when n is not a power of two
\* or a buffer is absent; an ifft that fails because the tables are absent
\* leaves real unchanged and every element of imag negated.
FailureKeepsBuffersAmended ==
    [][/\ (last'.op = "fft" /\ ~last'.ret) => UNCHANGED hostBufs
       /\ (last'.op = "ifft" /\ ~last'.ret /\ (last'.nullArg \/ ~isPowerOfTwo(last'.n)))
             => UNCHANGED hostBufs
       /\ (last'.op = "ifft" /\ ~last'.ret /\ ~last'.nullArg /\ isPowerOfTwo(last'.n))
             => (real' = real /\ imag' = NegateAll(imag))]_vars

\* A failed ifft of a buffer with a non-zero imaginary part.
FailureWitness ==
    /\ last.op = "ifft" /\ ~last.ret /\ ~last.nullArg /\ isPowerOfTwo(last.n)
    /\ ~AllZero(imag) /\ real = x0[1]

====
